---- MODULE Spec2Model ----
(***************************************************************************)
(* Low-correlation ETF trend strategy: the allocation selector of          *)
(* indicators.py and the event-driven simulation of backtester.py.         *)
(*                                                                         *)
(* Floats are modelled as exact rationals [n, d] in lowest terms; the      *)
(* float NaN is the record with d = 0.  A price table cell is a positive   *)
(* integer price or NaN (a missing price).  Dates are day numbers 1..N.    *)
(***************************************************************************)
EXTENDS Integers, Sequences, FiniteSets, TLC

VARIABLES
  price_profile,        \* the price tables handed in: each symbol's price profile,
  num_days,             \*   the number of daily bars,
  weekly_first,         \*   and the first week the weekly table holds
  initial_capital,      \* run_backtest: the initial_capital argument
  rebalance_dates,      \* run_backtest: the scheduled rebalance dates
  i,                    \* run_backtest: the index of the next day of the loop
  portfolio_value,      \* run_backtest: the values assigned so far, one per date
  holdings,             \* run_backtest: dict symbol -> shares
  trades,               \* run_backtest: the trade log
  trades_rerun,         \* the trade log of a second run on the same tables
  current_allocations,  \* the current weights (the current_holdings argument)
  allocations,          \* what generate_allocations returned: [err, alloc]
  tolerance,            \* the tolerance argument of check_drift
  has_drift,            \* what check_drift returned
  equity_curve,         \* the series handed to calculate_max_drawdown
  drawdown,             \* what calculate_max_drawdown returned
  returns,              \* the series handed to calculate_sharpe
  risk_free_rate,       \* the risk_free_rate argument of calculate_sharpe
  sharpe,               \* what calculate_sharpe returned
  pc                    \* position of the running operation

tableVars == <<price_profile, num_days, weekly_first>>
runVars == <<initial_capital, rebalance_dates, i, portfolio_value, holdings, trades, trades_rerun>>
selectorVars == <<current_allocations, allocations>>
driftVars == <<tolerance, has_drift>>
metricVars == <<equity_curve, drawdown, returns, risk_free_rate, sharpe>>
vars == <<tableVars, runVars, selectorVars, driftVars, metricVars, pc>>

----------------------------------------------------------------------------
(* Bounds of the model. *)

\* number of daily bars of the simulated price table
NumDays == 204
\* trading days between two month ends of the rebalance calendar
MonthLen == 21
\* longest series handed to calculate_max_drawdown, and its largest value
MaxCurveLen == 4
MaxReturnsLen == 3
MaxCurveValue == 3

----------------------------------------------------------------------------
(* Program constants. *)

SmaShort == 50
SmaLong == 200
CorrWindow == 26
TopN == 3
\* trading days between two rows of the weekly table (resample('W-FRI'))
WeekLen == 5
\* run_backtest(initial_capital=10000)
DefaultCapital == 10000
\* Backtester(transaction_cost=0.001) is 1 / CostRateInv
CostRateInv == 1000
\* np.isclose(a, b): |a - b| <= atol + rtol * |b| with rtol = 1 / RtolInv and
\* atol = 1 / AtolInv
TradingDays == 252
RtolInv == 100000
AtolInv == 100000000

\* the columns of the price tables, in the order of the CSV files: four ETFs of
\* ETF_UNIVERSE and the benchmark
Columns == <<"DBC", "GLD", "IEF", "SPY", "TLT">>
ColSet == {Columns[k] : k \in 1..Len(Columns)}
Universe == ColSet \ {"SPY"}

----------------------------------------------------------------------------
(* Floats. *)

NaN == 0 - 1
NaNR == [n |-> 0, d |-> 0]
IsNaN(x) == x.d = 0

Abs(a) == IF a < 0 THEN 0 - a ELSE a

RECURSIVE GCD(_, _)
GCD(a, b) == IF b = 0 THEN a ELSE GCD(b, a % b)

R(a, b) ==
  IF b = 0 THEN NaNR
  ELSE LET s == IF b < 0 THEN 0 - 1 ELSE 1
           g == GCD(Abs(a), Abs(b))
       IN  [n |-> (s * a) \div g, d |-> Abs(b) \div g]

FromInt(a) == IF a = NaN THEN NaNR ELSE [n |-> a, d |-> 1]
Zero == [n |-> 0, d |-> 1]
One == [n |-> 1, d |-> 1]

RAdd(x, y) ==
  IF IsNaN(x) \/ IsNaN(y) THEN NaNR
  ELSE LET g == GCD(x.d, y.d)
       IN  R(x.n * (y.d \div g) + y.n * (x.d \div g), (x.d \div g) * y.d)
RNeg(x) == [n |-> 0 - x.n, d |-> x.d]
RSub(x, y) == RAdd(x, RNeg(y))
RMul(x, y) ==
  IF IsNaN(x) \/ IsNaN(y) THEN NaNR
  ELSE LET g1 == GCD(Abs(x.n), y.d)
           g2 == GCD(Abs(y.n), x.d)
       IN  [n |-> (x.n \div g1) * (y.n \div g2),
            d |-> (x.d \div g2) * (y.d \div g1)]
\* float division by a NaN or by a missing price gives NaN; prices are never 0
RDiv(x, y) ==
  IF IsNaN(x) \/ IsNaN(y) \/ y.n = 0 THEN NaNR
  ELSE RMul(x, IF y.n < 0 THEN [n |-> 0 - y.d, d |-> 0 - y.n]
                          ELSE [n |-> y.d, d |-> y.n])
RAbs(x) == [n |-> Abs(x.n), d |-> x.d]
\* every float comparison with a NaN operand is False
RLT(x, y) ==
  /\ ~IsNaN(x)
  /\ ~IsNaN(y)
  /\ LET g == GCD(x.d, y.d) IN x.n * (y.d \div g) < y.n * (x.d \div g)
RGT(x, y) == RLT(y, x)

----------------------------------------------------------------------------
(* Python dicts keep insertion order: a dict is a sequence of <<key, value>>. *)

Keys(dict) == {dict[k][1] : k \in 1..Len(dict)}
Has(dict, key) == key \in Keys(dict)
Get(dict, key) == dict[CHOOSE k \in 1..Len(dict) : dict[k][1] = key][2]
CashOnly == << <<"CASH", One>> >>

----------------------------------------------------------------------------
(* indicators.py *)

RECURSIVE SumCol(_, _, _, _)
SumCol(prices, etf, lo, hi) ==
  IF lo > hi THEN 0
  ELSE IF lo = hi THEN prices[lo][etf]
  ELSE LET mid == (lo + hi) \div 2
       IN  SumCol(prices, etf, lo, mid) + SumCol(prices, etf, mid + 1, hi)

\* prices.rolling(window).mean() at row t: NaN until `window` rows exist and
\* whenever a price of the window is missing
calculate_sma(prices, etf, window, t) ==
  IF t < window \/ \E k \in (t - window + 1)..t : prices[k][etf] = NaN
  THEN NaNR
  ELSE R(SumCol(prices, etf, t - window + 1, t), window)

\* check_entry_signals(daily_prices)[etf + '_entry'].iloc[t]
EntrySignal(prices, etf, t) ==
  LET sma50 == calculate_sma(prices, etf, SmaShort, t)
      sma200 == calculate_sma(prices, etf, SmaLong, t)
  IN  RGT(FromInt(prices[t][etf]), sma50) /\ RGT(sma50, sma200)

\* check_exit_signals(daily_prices)[etf + '_exit'].iloc[t]
ExitSignal(prices, etf, t) ==
  LET sma50 == calculate_sma(prices, etf, SmaShort, t)
      sma200 == calculate_sma(prices, etf, SmaLong, t)
  IN  RLT(FromInt(prices[t][etf]), sma200) \/ RLT(sma50, sma200)

RECURSIVE SumProd(_, _, _, _, _)
SumProd(weekly, x, y, lo, hi) ==
  IF lo > hi THEN 0
  ELSE IF lo = hi THEN weekly[lo].px[x] * weekly[lo].px[y]
  ELSE LET mid == (lo + hi) \div 2
       IN  SumProd(weekly, x, y, lo, mid) + SumProd(weekly, x, y, mid + 1, hi)

RECURSIVE SumW(_, _, _, _)
SumW(weekly, x, lo, hi) ==
  IF lo > hi THEN 0
  ELSE IF lo = hi THEN weekly[lo].px[x]
  ELSE LET mid == (lo + hi) \div 2
       IN  SumW(weekly, x, lo, mid) + SumW(weekly, x, mid + 1, hi)

\* n * sum(x * y) - sum(x) * sum(y) over the rows lo..hi: n^2 times the covariance
CoMoment(weekly, x, y, lo, hi) ==
  (hi - lo + 1) * SumProd(weekly, x, y, lo, hi)
    - SumW(weekly, x, lo, hi) * SumW(weekly, y, lo, hi)

\* calculate_correlations(weekly_prices)[etf + '_corr'].iloc[-1]: the Pearson
\* correlation of the last `window` weekly prices of etf and of SPY.  The value
\* is cov / sqrt(vx * vy); it is kept as the three moments, and is NaN until
\* `window` rows exist, when a price is missing and when a variance is zero.
Correlation(weekly, etf, window) ==
  LET hi == Len(weekly)
      lo == hi - window + 1
  IN  IF \/ hi < window
         \/ \E k \in lo..hi : weekly[k].px[etf] = NaN \/ weekly[k].px["SPY"] = NaN
      THEN [nan |-> TRUE, cov |-> 0, vx |-> 0, vy |-> 0]
      ELSE LET vx == CoMoment(weekly, etf, etf, lo, hi)
               vy == CoMoment(weekly, "SPY", "SPY", lo, hi)
           IN  IF vx = 0 \/ vy = 0
               THEN [nan |-> TRUE, cov |-> 0, vx |-> 0, vy |-> 0]
               ELSE [nan |-> FALSE, cov |-> CoMoment(weekly, etf, "SPY", lo, hi),
                     vx |-> vx, vy |-> vy]

Sign(a) == IF a < 0 THEN 0 - 1 ELSE IF a > 0 THEN 1 ELSE 0

\* c1 < c2 on two correlations against the same benchmark window (same vy):
\* cov1 / sqrt(vx1) < cov2 / sqrt(vx2), compared through the signed squares
CorrLT(c1, c2) ==
  /\ ~c1.nan
  /\ ~c2.nan
  /\ Sign(c1.cov) * c1.cov * c1.cov * c2.vx < Sign(c2.cov) * c2.cov * c2.cov * c1.vx

\* the comparison sorted() makes on two (etf, corr) items: key(x) < key(y)
ISLT(x, y) == CorrLT(x[2], y[2])

RECURSIVE RunEnd(_, _, _)
\* count_run of CPython's list sort: the end of the run starting at a[1]
RunEnd(a, k, descending) ==
  IF k > Len(a) THEN Len(a)
  ELSE IF ISLT(a[k], a[k - 1]) = descending THEN RunEnd(a, k + 1, descending)
  ELSE k - 1

Reverse(a) == [k \in 1..Len(a) |-> a[Len(a) + 1 - k]]

RECURSIVE BinarySearch(_, _, _, _)
BinarySearch(a, pivot, l, r) ==
  IF l >= r THEN l
  ELSE LET p == l + ((r - l) \div 2)
       IN  IF ISLT(pivot, a[p]) THEN BinarySearch(a, pivot, l, p)
           ELSE BinarySearch(a, pivot, p + 1, r)

RECURSIVE BinarySort(_, _)
\* binarysort: a[1..start-1] is sorted; insert a[start], a[start+1], ...
BinarySort(a, start) ==
  IF start > Len(a) THEN a
  ELSE LET l == BinarySearch(a, a[start], 1, start)
           moved == [k \in 1..Len(a) |->
                       IF k < l \/ k > start THEN a[k]
                       ELSE IF k = l THEN a[start]
                       ELSE a[k - 1]]
       IN  BinarySort(moved, start + 1)

\* sorted(items, key=lambda x: x[1]) for fewer than 64 items: the first run is
\* found (and reversed when strictly descending), the rest is inserted by
\* binary insertion
Sorted(a) ==
  IF Len(a) < 2 THEN a
  ELSE LET descending == ISLT(a[2], a[1])
           n == RunEnd(a, 3, descending)
           head == IF descending THEN Reverse(SubSeq(a, 1, n)) ELSE SubSeq(a, 1, n)
       IN  BinarySort(head \o SubSeq(a, n + 1, Len(a)), n + 1)

Take(a, k) == SubSeq(a, 1, IF Len(a) < k THEN Len(a) ELSE k)

ExitTriggered_AllHeld(daily, current_holdings) ==
  \A k \in 1..Len(current_holdings) :
    /\ current_holdings[k][1] # "CASH"
    /\ ExitSignal(daily, current_holdings[k][1], Len(daily))

\* the exit check of generate_allocations on the held symbols
ExitTriggered(daily, current_holdings) ==
  \E k \in 1..Len(current_holdings) :
    /\ current_holdings[k][1] # "CASH"
    /\ ExitSignal(daily, current_holdings[k][1], Len(daily))

\* the symbols whose entry signal is true on the last row, in column order
Filtered(daily) ==
  SelectSeq(Columns, LAMBDA etf : EntrySignal(daily, etf, Len(daily)))

\* corr_subset.items(): the correlation columns (every column but SPY) of the
\* symbols of `filtered`, in column order
CorrSubset(weekly, filtered) ==
  LET inFiltered(etf) == etf # "SPY" /\ \E k \in 1..Len(filtered) : filtered[k] = etf
      etfs == SelectSeq(Columns, inFiltered)
  IN  [k \in 1..Len(etfs) |-> <<etfs[k], Correlation(weekly, etfs[k], CorrWindow)>>]

EqualWeight(selected) ==
  [k \in 1..Len(selected) |-> <<selected[k][1], R(1, Len(selected))>>]

\* generate_allocations(daily_prices, weekly_prices, current_holdings): the
\* returned dict, or the exception it raises; None is the empty dict
generate_allocations(daily, weekly, current_holdings) ==
  IF Len(current_holdings) > 0 /\ ExitTriggered(daily, current_holdings)
  THEN [err |-> "none", alloc |-> CashOnly]
  ELSE LET filtered == Filtered(daily)
       IN  IF Len(filtered) = 0 THEN [err |-> "none", alloc |-> CashOnly]
           ELSE IF Len(weekly) = 0 THEN [err |-> "IndexError", alloc |-> <<>>]
           ELSE LET selected == Take(Sorted(CorrSubset(weekly, filtered)), TopN)
                IN  [err |-> "none", alloc |-> EqualWeight(selected)]

----------------------------------------------------------------------------
(* Price tables. *)

\* the daily price of a symbol following a profile, as a step function of the
\* day; SmaLong is the first day on which the 200-day average exists
ProfilePrice(profile, day) ==
  CASE profile = "up"    -> IF day <= SmaLong \div 2 THEN 1 ELSE IF day < SmaLong THEN 2 ELSE 3
    [] profile = "late"  -> IF day <= (3 * SmaLong) \div 4 THEN 1 ELSE IF day < SmaLong THEN 2 ELSE 3
    [] profile = "spike" -> IF day <= SmaLong THEN 1 ELSE 3
    [] profile = "flat"  -> 2
    [] profile = "down"  -> IF day <= SmaLong \div 2 THEN 3 ELSE 1
    [] profile = "crash" -> IF day <= SmaLong \div 2 THEN 1 ELSE IF day < SmaLong THEN 2
                            ELSE IF day < SmaLong + 2 THEN 3 ELSE 1
    [] profile = "surge" -> IF day <= SmaLong \div 2 THEN 1 ELSE IF day < SmaLong THEN 2
                            ELSE IF day < SmaLong + 2 THEN 3 ELSE 6
    [] profile = "creep" -> IF day <= SmaLong \div 2 THEN 1 ELSE IF day < SmaLong THEN 2
                            ELSE IF day < SmaLong + 2 THEN 3 ELSE 4
    [] profile = "dip"   -> IF day <= SmaLong \div 2 THEN 1 ELSE IF day < SmaLong THEN 2
                            ELSE IF day < SmaLong + 2 THEN 3 ELSE 2
    [] profile = "gap"   -> IF day <= SmaLong \div 2 THEN 1 ELSE IF day < SmaLong THEN 2
                            ELSE IF day = SmaLong + 2 THEN NaN ELSE 3

DailyTable(profiles, n) ==
  [day \in 1..n |-> [etf \in ColSet |-> ProfilePrice(profiles[etf], day)]]

\* generate_weekly_data: the last daily price of each week, from week `first` on
WeeklyTable(daily, first) ==
  LET weeks == Len(daily) \div WeekLen
  IN  IF first > weeks THEN <<>>
      ELSE [k \in 1..(weeks - first + 1) |->
              [Date |-> (first + k - 1) * WeekLen,
               px |-> daily[(first + k - 1) * WeekLen]]]

\* Backtester.daily_prices: a sequence of rows [symbol -> price], one per date
daily_prices == DailyTable(price_profile, num_days)
\* Backtester.weekly_prices: a sequence of rows [Date, px]
weekly_prices == WeeklyTable(daily_prices, weekly_first)

\* daily_prices.loc[:current_date]
DailyUpTo(daily, day) == SubSeq(daily, 1, day)
\* weekly_prices.loc[:current_date]
WeeklyUpTo(weekly, day) == SelectSeq(weekly, LAMBDA row : row.Date <= day)

----------------------------------------------------------------------------
(* backtester.py: check_drift and calculate_max_drawdown *)

DefaultTolerance == R(1, 4)

RECURSIVE DriftFrom(_, _, _, _)
DriftFrom_MissingIsZero(current, allocs, tol, k) ==
  IF k > Len(current) THEN FALSE
  ELSE LET etf == current[k][1]
           target == IF Has(allocs, etf) THEN Get(allocs, etf) ELSE Zero
           actual == current[k][2]
       IN  IF RGT(RAbs(RSub(actual, target)), RMul(target, tol)) THEN TRUE
           ELSE DriftFrom(current, allocs, tol, k + 1)

\* the loop of check_drift from the k-th held symbol on
DriftFrom(current, allocs, tol, k) ==
  IF k > Len(current) THEN FALSE
  ELSE LET etf == current[k][1]
       IN  IF ~Has(allocs, etf) THEN DriftFrom(current, allocs, tol, k + 1)
           ELSE LET target == Get(allocs, etf)
                    actual == current[k][2]
                IN  IF RGT(RAbs(RSub(actual, target)), RMul(target, tol)) THEN TRUE
                    ELSE DriftFrom(current, allocs, tol, k + 1)

\* Backtester.check_drift(current_allocations, allocs, tolerance)
check_drift(current, allocs, tol) == DriftFrom(current, allocs, tol, 1)

RECURSIVE DrawdownScan(_, _, _)
\* the loop of calculate_max_drawdown: st is (peak, max_drawdown, peak_date,
\* trough_date) before the k-th point
DrawdownScan(curve, k, st) ==
  IF k > Len(curve) THEN st
  ELSE IF RGT(curve[k], st.peak)
       THEN DrawdownScan(curve, k + 1, [st EXCEPT !.peak = curve[k], !.peak_date = k])
       ELSE LET dd == RDiv(RSub(st.peak, curve[k]), st.peak)
            IN  IF RGT(dd, st.max_drawdown)
                THEN DrawdownScan(curve, k + 1,
                                  [st EXCEPT !.max_drawdown = dd, !.trough_date = k])
                ELSE DrawdownScan(curve, k + 1, st)

\* None
NoDate == 0

\* Backtester.calculate_max_drawdown(equity_curve): (max_drawdown, peak_date,
\* trough_date); the dates of a series are 1..Len
calculate_max_drawdown(curve) ==
  IF Len(curve) < 2 THEN <<Zero, NoDate, NoDate>>
  ELSE LET st == DrawdownScan(curve, 1, [peak |-> curve[1], max_drawdown |-> Zero,
                                         peak_date |-> 1, trough_date |-> 1])
       IN  <<st.max_drawdown, st.peak_date, st.trough_date>>

----------------------------------------------------------------------------
(* Idle values of the variables an operation does not use. *)

\* the float results of calculate_sharpe: sqrt(252) * mean / std is kept as its
\* sign and its square; a division by a zero std gives an infinity of the sign
\* of the mean, or NaN when the mean is zero as well
SharpeZero == [kind |-> "finite", sign |-> 0, square |-> Zero]
SharpeNaN == [kind |-> "nan", sign |-> 0, square |-> Zero]
SharpeInf(sign) == [kind |-> "inf", sign |-> sign, square |-> Zero]

RECURSIVE SeriesSum(_, _)
\* series.sum() over the first k observations
SeriesSum(series, k) ==
  IF k = 0 THEN Zero ELSE RAdd(SeriesSum(series, k - 1), series[k])

\* series.mean()
Mean(series) == RDiv(SeriesSum(series, Len(series)), FromInt(Len(series)))

\* series.std() squared: the sample variance (ddof = 1)
Variance(series) ==
  LET mean == Mean(series)
      squares == [k \in 1..Len(series) |->
                    RMul(RSub(series[k], mean), RSub(series[k], mean))]
  IN  RDiv(SeriesSum(squares, Len(squares)), FromInt(Len(series) - 1))

\* Backtester.calculate_sharpe(returns, risk_free_rate)
calculate_sharpe(rets, rate) ==
  IF Len(rets) < 2 THEN SharpeZero
  ELSE LET daily == RDiv(rate, FromInt(TradingDays))
           excess_returns == [k \in 1..Len(rets) |-> RSub(rets[k], daily)]
           mean == Mean(excess_returns)
           variance == Variance(excess_returns)
       IN  IF variance = Zero
           THEN IF mean = Zero THEN SharpeNaN ELSE SharpeInf(Sign(mean.n))
           ELSE [kind |-> "finite", sign |-> Sign(mean.n),
                 square |-> RDiv(RMul(FromInt(TradingDays), RMul(mean, mean)), variance)]

RunIdle ==
  /\ initial_capital = FromInt(DefaultCapital)
  /\ rebalance_dates = {}
  /\ i = 0
  /\ portfolio_value = <<>>
  /\ holdings = <<>>
  /\ trades = <<>>
  /\ trades_rerun = <<>>
TableIdle == price_profile = [etf \in ColSet |-> "flat"] /\ num_days = 0 /\ weekly_first = 1
SelectorIdle == current_allocations = <<>> /\ allocations = [err |-> "none", alloc |-> <<>>]
DriftIdle == tolerance = DefaultTolerance /\ has_drift = FALSE
MetricIdle ==
  /\ equity_curve = <<>>
  /\ drawdown = <<Zero, NoDate, NoDate>>
  /\ returns = <<>>
  /\ risk_free_rate = Zero
  /\ sharpe = SharpeZero

----------------------------------------------------------------------------
(* backtester.py: run_backtest *)

transaction_cost == R(1, CostRateInv)

\* self.daily_prices.loc[date, etf]
Price(day, etf) == FromInt(daily_prices[day][etf])

RECURSIVE HoldingsValue(_, _, _)
\* sum(shares * price for etf, shares in holdings.items()) over the first k items
HoldingsValue(h, day, k) ==
  IF k = 0 THEN Zero
  ELSE RAdd(HoldingsValue(h, day, k - 1), RMul(h[k][2], Price(day, h[k][1])))

\* {etf: shares * price / total_value for etf, shares in holdings.items()}
Weights(h, day, total_value) ==
  [k \in 1..Len(h) |-> <<h[k][1], RDiv(RMul(h[k][2], Price(day, h[k][1])), total_value)>>]

\* np.isclose(a, b)
IsClose(a, b) ==
  IF IsNaN(a) \/ IsNaN(b) THEN FALSE
  ELSE LET diff == RAbs(RSub(a, b))
           rel == RMul(RAbs(b), R(1, RtolInv))
       IN  IF diff.n = 0 \/ diff.d \div diff.n >= AtolInv THEN TRUE
           ELSE IF ~RLT(rel, diff) THEN TRUE
           ELSE LET excess == RSub(diff, rel)
                IN  excess.d \div excess.n >= AtolInv

\* the move to cash with the cost taken on the share count, not on the proceeds
LiquidationTrades_CostOnShares(h, day, scheduled) ==
  [k \in 1..Len(h) |->
     LET price == Price(day, h[k][1])
     IN  [date |-> day, etf |-> h[k][1], shares |-> RNeg(h[k][2]), price |-> price,
          type |-> "sell",
          reason |-> IF ~scheduled THEN "exit_signal" ELSE "rebalance",
          cost |-> RMul(h[k][2], transaction_cost)]]

\* the trades of the move to cash: one sell per held symbol, in dict order
LiquidationTrades(h, day, scheduled) ==
  [k \in 1..Len(h) |->
     LET price == Price(day, h[k][1])
     IN  [date |-> day, etf |-> h[k][1], shares |-> RNeg(h[k][2]), price |-> price,
          type |-> "sell",
          reason |-> IF ~scheduled THEN "exit_signal" ELSE "rebalance",
          cost |-> RMul(RMul(h[k][2], price), transaction_cost)]]

\* target_shares taken at the price of the day before
TargetShares_PreviousPrice(alloc, day, value) ==
  [k \in 1..Len(alloc) |->
     <<alloc[k][1], RDiv(RMul(alloc[k][2], value), Price(day - 1, alloc[k][1]))>>]

\* target_shares: {etf: alloc * portfolio_value[current_date] / price}
TargetShares(alloc, day, value) ==
  [k \in 1..Len(alloc) |->
     <<alloc[k][1], RDiv(RMul(alloc[k][2], value), Price(day, alloc[k][1]))>>]

RECURSIVE RebalanceTrades(_, _, _, _, _)
\* the trades of the rebalance loop over the symbols of `order` from the k-th on
RebalanceTrades(order, k, h, target_shares, day) ==
  IF k > Len(order) THEN <<>>
  ELSE LET etf == order[k]
           current_shares == IF Has(h, etf) THEN Get(h, etf) ELSE Zero
           target_share == IF Has(target_shares, etf) THEN Get(target_shares, etf) ELSE Zero
           price == Price(day, etf)
           trade_shares == RSub(target_share, current_shares)
           rest == RebalanceTrades(order, k + 1, h, target_shares, day)
       IN  IF IsClose(current_shares, target_share) THEN rest
           ELSE << [date |-> day, etf |-> etf, shares |-> trade_shares, price |-> price,
                    type |-> IF RGT(trade_shares, Zero) THEN "buy" ELSE "sell",
                    reason |-> "rebalance",
                    cost |-> RMul(RAbs(RMul(trade_shares, price)), transaction_cost)] >>
                \o rest

RECURSIVE TotalCost(_, _)
\* total_cost: the costs of the first k trades of the day, added in order
TotalCost(day_trades, k) ==
  IF k = 0 THEN Zero ELSE RAdd(TotalCost(day_trades, k - 1), day_trades[k].cost)

\* should_trade with the exit override dropped in favour of an entry override
ShouldTrade_EntryOverride(scheduled, held, drift, target) ==
  scheduled \/ drift \/ (~held /\ ~Has(target, "CASH"))

\* should_trade: a rebalance date, or drift, or an exit while holdings exist
ShouldTrade(scheduled, held, drift, target) ==
  scheduled \/ drift \/ (held /\ Has(target, "CASH"))

\* the iteration orders of set(holdings.keys()).union(allocations.keys()) taken
\* into account: the order of a set of strings depends on the interpreter's
\* string hashing
SetOrders(S) ==
  LET ascending == SelectSeq(Columns, LAMBDA etf : etf \in S)
  IN  {ascending, Reverse(ascending)}

\* pd.date_range(start, end, freq): every period-th day
Calendar(period, phase) == {d \in 1..NumDays : d % period = phase % period}

\* the calendars: month ends falling on day 200, on day 201, every day
Calendars ==
  {Calendar(MonthLen, SmaLong), Calendar(MonthLen, SmaLong + 1), Calendar(1, 0)}

Profile(dbc, gld, ief, spy, tlt) ==
  [etf \in ColSet |->
     CASE etf = "DBC" -> dbc [] etf = "GLD" -> gld [] etf = "IEF" -> ief
       [] etf = "SPY" -> spy [] etf = "TLT" -> tlt]

\* DBC is the only symbol that rises
SingleRiser == Profile("up", "flat", "flat", "flat", "flat")

\* the price tables of the simulated runs
Scenarios ==
  { Profile("up", "up", "up", "up", "up"),
    Profile("surge", "up", "late", "up", "flat"),
    Profile("creep", "up", "late", "up", "flat"),
    Profile("dip", "up", "late", "up", "flat"),
    Profile("crash", "up", "flat", "up", "flat"),
    Profile("gap", "up", "flat", "up", "flat"),
    Profile("flat", "flat", "flat", "up", "flat"),
    Profile("spike", "up", "up", "up", "late"),
    SingleRiser }

\* the initial_capital arguments of the simulated runs: the default, and a
\* capital so small that a whole position is within the tolerance of np.isclose
Capitals == {FromInt(DefaultCapital), R(1, 50000000)}

\* Backtester(daily_prices, weekly_prices) and the first lines of run_backtest
Init ==
  /\ price_profile \in Scenarios
  /\ num_days = NumDays
  /\ weekly_first \in {1, (SmaLong \div WeekLen) + 1}
  /\ weekly_first # 1 => price_profile = Profile("up", "up", "up", "up", "up")
  /\ rebalance_dates \in Calendars
  /\ i = 2
  /\ initial_capital \in Capitals
  /\ initial_capital # FromInt(DefaultCapital) => price_profile = SingleRiser
  /\ portfolio_value = <<initial_capital>>
  /\ holdings = <<>>
  /\ trades = <<>>
  /\ trades_rerun = <<>>
  /\ SelectorIdle
  /\ DriftIdle
  /\ MetricIdle
  /\ pc = "loop"

\* one iteration of the loop of run_backtest, for current_date = i
RunDay ==
  /\ pc = "loop"
  /\ i <= num_days
  /\ LET held == Len(holdings) > 0
         marked == IF held THEN HoldingsValue(holdings, i, Len(holdings))
                   ELSE portfolio_value[i - 1]
         weights == IF held THEN Weights(holdings, i, marked) ELSE <<>>
     IN  \E target \in {generate_allocations(DailyUpTo(daily_prices, i),
                                             WeeklyUpTo(weekly_prices, i), weights)} :
     LET scheduled == i \in rebalance_dates
         drift == held /\ ~scheduled /\ check_drift(weights, target.alloc, DefaultTolerance)
         should_trade == ShouldTrade(scheduled, held, drift, target.alloc)
     IN  /\ current_allocations' = weights
         /\ allocations' = target
         /\ UNCHANGED <<tableVars, initial_capital, rebalance_dates, tolerance, metricVars>>
         /\ IF target.err # "none"
            THEN \* generate_allocations raised: the run ends here
                 /\ pc' = "raised"
                 /\ portfolio_value' = Append(portfolio_value, marked)
                 /\ UNCHANGED <<i, holdings, trades, trades_rerun, has_drift>>
            ELSE /\ pc' = "loop"
                 /\ i' = i + 1
                 /\ has_drift' = drift
                 /\ IF ~should_trade
                    THEN /\ portfolio_value' = Append(portfolio_value, marked)
                         /\ UNCHANGED <<holdings, trades, trades_rerun>>
                    ELSE IF Has(target.alloc, "CASH")
                    THEN LET sold == LiquidationTrades(holdings, i, scheduled)
                         IN  /\ portfolio_value' =
                                  Append(portfolio_value,
                                         IF held THEN RSub(marked, TotalCost(sold, Len(sold)))
                                         ELSE marked)
                             /\ holdings' = <<>>
                             /\ trades' = trades \o sold
                             /\ trades_rerun' = trades_rerun \o sold
                    ELSE LET target_shares == TargetShares(target.alloc, i, marked)
                             union == Keys(holdings) \cup Keys(target.alloc)
                         IN  \E order \in SetOrders(union), order_rerun \in SetOrders(union) :
                               LET done == RebalanceTrades(order, 1, holdings, target_shares, i)
                                   redone == RebalanceTrades(order_rerun, 1, holdings,
                                                             target_shares, i)
                               IN  /\ portfolio_value' =
                                        Append(portfolio_value,
                                               RSub(marked, TotalCost(done, Len(done))))
                                   /\ holdings' = target_shares
                                   /\ trades' = trades \o done
                                   /\ trades_rerun' = trades_rerun \o redone

\* the end of run_backtest: self.equity_curve and self.trades are set
Finish ==
  /\ pc = "loop"
  /\ i > num_days
  /\ pc' = "done"
  /\ UNCHANGED <<tableVars, runVars, selectorVars, driftVars, metricVars>>

Next == RunDay \/ Finish

Spec == Init /\ [][Next]_vars

----------------------------------------------------------------------------
(* check_drift as a function of its three arguments. *)

DriftWeights == {R(1, 5), R(2, 5), R(1, 2), R(3, 5), R(4, 5), One, NaNR}
DriftSymbols == {"DBC", "GLD", "CASH"}
\* the dicts of at most two symbols, in both insertion orders
DriftDicts ==
  {<<>>} \cup { << <<etf, w>> >> : etf \in DriftSymbols, w \in DriftWeights }
         \cup { << <<x[1], w[1]>>, <<x[2], w[2]>> >> :
                  x \in {y \in DriftSymbols \X DriftSymbols : y[1] # y[2]},
                  w \in DriftWeights \X DriftWeights }

InitDrift ==
  /\ TableIdle
  /\ RunIdle
  /\ current_allocations \in DriftDicts
  /\ \E target \in DriftDicts : allocations = [err |-> "none", alloc |-> target]
  /\ tolerance \in {DefaultTolerance, R(1, 2)}
  /\ has_drift = FALSE
  /\ MetricIdle
  /\ pc = "call"

CallCheckDrift ==
  /\ pc = "call"
  /\ has_drift' = check_drift(current_allocations, allocations.alloc, tolerance)
  /\ pc' = "returned"
  /\ UNCHANGED <<tableVars, runVars, selectorVars, tolerance, metricVars>>

NextDrift == CallCheckDrift

SpecDrift == InitDrift /\ [][NextDrift]_vars

----------------------------------------------------------------------------
(* calculate_max_drawdown as a function of its argument. *)

Curves ==
  UNION { [1..len -> {FromInt(v) : v \in 1..MaxCurveValue}] : len \in 2..MaxCurveLen }

InitDrawdown ==
  /\ TableIdle
  /\ RunIdle
  /\ SelectorIdle
  /\ DriftIdle
  /\ equity_curve \in Curves
  /\ drawdown = <<Zero, NoDate, NoDate>>
  /\ returns = <<>>
  /\ risk_free_rate = Zero
  /\ sharpe = SharpeZero
  /\ pc = "call"

CallMaxDrawdown ==
  /\ pc = "call"
  /\ drawdown' = calculate_max_drawdown(equity_curve)
  /\ pc' = "returned"
  /\ UNCHANGED <<tableVars, runVars, selectorVars, driftVars, equity_curve,
                 returns, risk_free_rate, sharpe>>

NextDrawdown == CallMaxDrawdown

SpecDrawdown == InitDrawdown /\ [][NextDrawdown]_vars

----------------------------------------------------------------------------
(* calculate_sharpe called on every short series of daily returns *)

ReturnValues == {R(0 - 1, 2), Zero, R(1, 4), R(1, 2)}
RiskFreeRates == {Zero, R(63, 250)}

ReturnSeries == UNION { [1..len -> ReturnValues] : len \in 0..MaxReturnsLen }

InitSharpe ==
  /\ TableIdle
  /\ RunIdle
  /\ SelectorIdle
  /\ DriftIdle
  /\ equity_curve = <<>>
  /\ drawdown = <<Zero, NoDate, NoDate>>
  /\ returns \in ReturnSeries
  /\ risk_free_rate \in RiskFreeRates
  /\ sharpe = SharpeZero
  /\ pc = "call"

CallSharpe ==
  /\ pc = "call"
  /\ sharpe' = calculate_sharpe(returns, risk_free_rate)
  /\ pc' = "returned"
  /\ UNCHANGED <<tableVars, runVars, selectorVars, driftVars, equity_curve, drawdown,
                 returns, risk_free_rate>>

NextSharpe == CallSharpe

SpecSharpe == InitSharpe /\ [][NextSharpe]_vars

----------------------------------------------------------------------------
(* generate_allocations as a function of its three arguments. *)

AllocProfiles == {"up", "late", "flat", "down"}
AllocUniverseProfiles ==
  {f \in [Universe -> AllocProfiles] : f["IEF"] # "down" /\ f["TLT"] # "down"}
AllocHoldings ==
  { <<>>,
    << <<"DBC", One>> >>,
    << <<"GLD", R(1, 2)>>, <<"IEF", R(1, 2)>> >>,
    << <<"CASH", One>> >> }
\* <<daily bars, first week of the weekly table>>: a short daily history, full
\* histories, too few weekly rows for one correlation window, no weekly row
AllocShapes ==
  { <<SmaLong - 1, 1>>, <<SmaLong, 1>>,
    <<SmaLong, (SmaLong \div WeekLen) - CorrWindow + 2>>,
    <<SmaLong, (SmaLong \div WeekLen) + 1>> }

InitAlloc ==
  /\ \E profiles \in AllocUniverseProfiles, spy \in {"up", "flat"},
        shape \in AllocShapes :
       /\ price_profile = [etf \in ColSet |-> IF etf = "SPY" THEN spy ELSE profiles[etf]]
       /\ num_days = shape[1]
       /\ weekly_first = shape[2]
  /\ RunIdle
  /\ current_allocations \in AllocHoldings
  /\ allocations = [err |-> "none", alloc |-> <<>>]
  /\ DriftIdle
  /\ MetricIdle
  /\ pc = "call"

CallGenerateAllocations ==
  /\ pc = "call"
  /\ allocations' = generate_allocations(daily_prices, weekly_prices, current_allocations)
  /\ pc' = "returned"
  /\ UNCHANGED <<tableVars, runVars, current_allocations, driftVars, metricVars>>

NextAlloc == CallGenerateAllocations

SpecAlloc == InitAlloc /\ [][NextAlloc]_vars

----------------------------------------------------------------------------
(* Claims about generate_allocations, checked under SpecAlloc. *)

Returned == pc = "returned" /\ allocations.err = "none"
LastDay == Len(daily_prices)
\* the universe symbols whose entry signal is true on the most recent day
Passers == {etf \in Universe : EntrySignal(daily_prices, etf, LastDay)}
Selected == Keys(allocations.alloc)
ColumnIndex(etf) == CHOOSE k \in 1..Len(Columns) : Columns[k] = etf
LastCorrelation(etf) == Correlation(weekly_prices, etf, CorrWindow)
CorrEQ(c1, c2) ==
  /\ ~c1.nan
  /\ ~c2.nan
  /\ Sign(c1.cov) * c1.cov * c1.cov * c2.vx = Sign(c2.cov) * c2.cov * c2.cov * c1.vx
Min(a, b) == IF a < b THEN a ELSE b

\* C1: the returned mapping is exactly {CASH: 1.0} or an equal-weighted mapping
\* over 1 to 3 symbols of the ETF universe (weights non-negative, summing to
\* 1.0); it is never empty and never holds the benchmark.
C1_AllocationWellFormed ==
  Returned =>
    \/ allocations.alloc = CashOnly
    \/ /\ Len(allocations.alloc) \in 1..TopN
       /\ Selected \subseteq Universe
       /\ Cardinality(Selected) = Len(allocations.alloc)
       /\ \A k \in 1..Len(allocations.alloc) :
            /\ allocations.alloc[k][2] = R(1, Len(allocations.alloc))
            /\ allocations.alloc[k][2].n >= 0
       /\ RMul(FromInt(Len(allocations.alloc)), allocations.alloc[1][2]) = One

\* the benchmark is the only column whose entry signal is true and the call
\* returned
C1_BenchmarkOnlyPasser ==
  /\ Returned
  /\ Len(current_allocations) = 0
  /\ Passers = {}
  /\ EntrySignal(daily_prices, "SPY", LastDay)

\* C2: with a non-empty currentWeights and a true exit signal on the most recent
\* day for at least one held symbol, the result is exactly {CASH: 1.0}.
C2_ExitLiquidatesBook ==
  ( /\ pc = "returned"
    /\ Len(current_allocations) > 0
    /\ \E etf \in Keys(current_allocations) \cap ColSet :
         ExitSignal(daily_prices, etf, LastDay) )
  => allocations = [err |-> "none", alloc |-> CashOnly]

\* two symbols are held, the exit signal is true for one of them only, and a
\* symbol that is not held passes the entry filter: the whole book still goes
\* to cash
C2_Witness ==
  /\ pc = "returned"
  /\ \E x, y \in Keys(current_allocations) \cap ColSet :
       /\ ExitSignal(daily_prices, x, LastDay)
       /\ ~ExitSignal(daily_prices, y, LastDay)
  /\ Passers \ Keys(current_allocations) # {}
  /\ allocations.alloc = CashOnly

\* C3: a non-cash allocation holds exactly the min(3, number of passers) passers
\* with the lowest correlation to the benchmark on the most recent weekly row,
\* equal correlations ordered by the column order: every selected symbol is a
\* passer and ranks before every passer left out.
C3_LowestCorrelationSelected ==
  (Returned /\ allocations.alloc # CashOnly) =>
    /\ Selected \subseteq Passers
    /\ Cardinality(Selected) = Min(TopN, Cardinality(Passers))
    /\ \A s \in Selected : \A u \in Passers \ Selected :
         \/ CorrLT(LastCorrelation(s), LastCorrelation(u))
         \/ /\ CorrEQ(LastCorrelation(s), LastCorrelation(u))
            /\ ColumnIndex(s) < ColumnIndex(u)

\* more than three symbols pass and every correlation is defined
C3_MoreThanThreePassers ==
  /\ Returned
  /\ allocations.alloc # CashOnly
  /\ Cardinality(Passers) > TopN
  /\ \A etf \in Passers : ~LastCorrelation(etf).nan

\* C9: with fewer than 200 daily bars or fewer than 26 weekly rows the call does
\* not raise and the result is {CASH: 1.0}: no symbol whose average or
\* correlation is undefined is selected.
C9_ShortHistoryDefaultsToCash ==
  ( /\ pc = "returned"
    /\ (Len(daily_prices) < SmaLong \/ Len(weekly_prices) < CorrWindow) )
  => allocations = [err |-> "none", alloc |-> CashOnly]

\* a call on a short weekly history that selected a symbol whose correlation
\* is undefined
C9_UndefinedCorrelationSelected ==
  /\ Returned
  /\ Len(weekly_prices) < CorrWindow
  /\ \E etf \in Selected \cap Universe : LastCorrelation(etf).nan

----------------------------------------------------------------------------
(* Claims about check_drift, checked under SpecDrift. *)

\* C4: check_drift returns true exactly when some symbol present in both
\* mappings has |current weight - target weight| > tolerance * target weight;
\* a symbol present in only one mapping never causes a drift trigger.
C4_DriftIffCommonSymbolDeviates ==
  pc = "returned" =>
    ( has_drift <=>
        \E etf \in Keys(current_allocations) \cap Keys(allocations.alloc) :
          RLT(RMul(tolerance, Get(allocations.alloc, etf)),
              RAbs(RSub(Get(current_allocations, etf), Get(allocations.alloc, etf)))) )

\* the second scenario of the specification: current {A: 0.6, B: 0.4} against
\* target {A: 0.8, B: 0.2} at tolerance 0.25 fires
C4_Witness ==
  /\ pc = "returned"
  /\ tolerance = DefaultTolerance
  /\ current_allocations = << <<"DBC", R(3, 5)>>, <<"GLD", R(2, 5)>> >>
  /\ allocations.alloc = << <<"DBC", R(4, 5)>>, <<"GLD", R(1, 5)>> >>
  /\ has_drift

\* the first scenario: target {A: 0.5, B: 0.5} does not fire
C4_NoDriftScenario ==
  ( /\ pc = "returned"
    /\ tolerance = DefaultTolerance
    /\ current_allocations = << <<"DBC", R(3, 5)>>, <<"GLD", R(2, 5)>> >>
    /\ allocations.alloc = << <<"DBC", R(1, 2)>>, <<"GLD", R(1, 2)>> >> )
  => ~has_drift

----------------------------------------------------------------------------
(* Claims about calculate_max_drawdown, checked under SpecDrawdown. *)

RMax(x, y) == IF RLT(x, y) THEN y ELSE x
RECURSIVE RunningPeak(_, _)
\* the largest value of the first k points
RunningPeak(curve, k) ==
  IF k = 1 THEN curve[1] ELSE RMax(RunningPeak(curve, k - 1), curve[k])
DrawdownAt(curve, k) ==
  RDiv(RSub(RunningPeak(curve, k), curve[k]), RunningPeak(curve, k))
\* the date on which the running peak in effect at date k was set
PeakDateAt(curve, k) ==
  CHOOSE j \in 1..k :
    /\ curve[j] = RunningPeak(curve, k)
    /\ \A m \in 1..(j - 1) : RLT(curve[m], curve[j])

\* C10: for a curve of at least 2 points the result is (d, peak_date,
\* trough_date) with d the largest drawdown from the running peak, trough_date
\* the first date reaching it and peak_date the date of the running peak in
\* effect at trough_date (so peak_date <= trough_date); d is 0 for a strictly
\* increasing curve.
C10_DrawdownPeakAndTrough ==
  (pc = "returned" /\ Len(equity_curve) >= 2) =>
    LET d == drawdown[1]
        peak_date == drawdown[2]
        trough_date == drawdown[3]
        dates == 1..Len(equity_curve)
    IN  /\ \A k \in dates : ~RLT(d, DrawdownAt(equity_curve, k))
        /\ trough_date \in dates
        /\ DrawdownAt(equity_curve, trough_date) = d
        /\ \A k \in 1..(trough_date - 1) : RLT(DrawdownAt(equity_curve, k), d)
        /\ peak_date = PeakDateAt(equity_curve, trough_date)
        /\ peak_date <= trough_date
        /\ (\A k \in 2..Len(equity_curve) : RLT(equity_curve[k - 1], equity_curve[k]))
             => d = Zero

\* a curve that sets a new peak after its deepest trough
C10_NewPeakAfterTrough ==
  /\ pc = "returned"
  /\ Len(equity_curve) >= 3
  /\ drawdown[1] # Zero
  /\ \E k \in (drawdown[3] + 1)..Len(equity_curve) :
       RLT(RunningPeak(equity_curve, drawdown[3]), equity_curve[k])

----------------------------------------------------------------------------
(* Claims about run_backtest, checked under Spec *)

RECURSIVE MarkToMarket(_, _)
\* the market value of the holdings h at the prices of a day
MarkToMarket(h, day) ==
  IF h = <<>> THEN Zero
  ELSE RAdd(RMul(Head(h)[2], FromInt(daily_prices[day][Head(h)[1]])),
            MarkToMarket(Tail(h), day))

\* the step that simulates day i to its end
DaySimulated == pc = "loop" /\ pc' = "loop" /\ i' = i + 1

\* the trades recorded with a date
TradesOn(log, day) == SelectSeq(log, LAMBDA trade : trade.date = day)

\* C5: a day that is no rebalance date, on which the drift check does not fire
\* and on which it is not the case that symbols are held while the target is
\* all cash, appends no trade, leaves the holdings as they are and records the
\* market value of the holdings at the day's prices as the day's equity (the
\* previous day's equity when nothing is held).
C5_QuietDayOnlyMarksToMarket ==
  [][ ( /\ DaySimulated
        /\ i \notin rebalance_dates
        /\ ~has_drift'
        /\ ~(holdings # <<>> /\ allocations'.alloc = CashOnly) )
      => /\ trades' = trades
         /\ holdings' = holdings
         /\ Len(portfolio_value') = i
         /\ portfolio_value'[i] = IF holdings = <<>> THEN portfolio_value[i - 1]
                                  ELSE MarkToMarket(holdings, i) ]_vars

\* a quiet day has passed with symbols held whose prices moved that day
C5_Witness ==
  /\ pc = "loop"
  /\ i > 3
  /\ i - 1 \notin rebalance_dates
  /\ ~has_drift
  /\ holdings # <<>>
  /\ allocations.alloc # CashOnly
  /\ TradesOn(trades, i - 1) = <<>>
  /\ \E etf \in Keys(holdings) : daily_prices[i - 1][etf] # daily_prices[i - 2][etf]
  /\ ~IsNaN(portfolio_value[i - 1])
  /\ portfolio_value[i - 1] = MarkToMarket(holdings, i - 1)
  /\ portfolio_value[i - 1] # portfolio_value[i - 2]

\* C6: two runs on the same price tables and the same configuration record
\* the same trades in the same order (the equity curve is one variable for
\* both runs: the sum of the day's costs does not depend on the order of the
\* trades in exact arithmetic).
C6_RunsAgree == trades_rerun = trades

\* a rebalance has traded two symbols on one day
C6_TwoSymbolsTradedOnOneDay ==
  \E j, k \in 1..Len(trades) :
    trades[j].date = trades[k].date /\ trades[j].etf # trades[k].etf

\* C7: after a completed run the equity curve has one defined value for each
\* date of the daily table, its first value is the initial capital and no
\* trade carries the first date.
C7_EquityCurveComplete ==
  pc = "done" =>
    /\ Len(portfolio_value) = num_days
    /\ \A day \in 1..Len(portfolio_value) : ~IsNaN(portfolio_value[day])
    /\ portfolio_value[1] = initial_capital
    /\ TradesOn(trades, 1) = <<>>

\* a run over the whole table has completed and has traded
C7_CompletedRunWithTrades ==
  pc = "done" /\ Len(portfolio_value) = num_days /\ trades # <<>>

\* C8: a day on which the price of a held or targeted symbol is missing ends
\* the run with an error; no equity value, holdings or trades are recorded
\* for that day.
C8_MissingPriceHaltsRun ==
  [][ ( /\ pc = "loop"
        /\ i <= num_days
        /\ \E etf \in (Keys(holdings) \cup Keys(allocations'.alloc)) \cap ColSet :
             daily_prices[i][etf] = NaN )
      => /\ pc' = "raised"
         /\ portfolio_value' = portfolio_value
         /\ holdings' = holdings
         /\ trades' = trades ]_vars

\* an undefined equity value has been recorded for a day on which the price
\* of a held symbol is missing, and the run has gone on
C8_UndefinedEquityRecorded ==
  /\ pc # "raised"
  /\ \E day \in 2..Len(portfolio_value) :
       /\ IsNaN(portfolio_value[day])
       /\ \E etf \in ColSet : daily_prices[day][etf] = NaN
       /\ day < i

\* the trades appended by the step
NewTrades == SubSeq(trades', Len(trades) + 1, Len(trades'))

\* the day's trigger is the exit override: symbols are held and the target is cash
ExitOverride == holdings # <<>> /\ allocations'.alloc = CashOnly

\* C12: every trade appended on a day carries the reason of the day's
\* trigger: rebalance on a scheduled rebalance date, drift when only the
\* drift check fired on another day, exit_signal when only the exit override
\* fired on another day.
C12_ReasonNamesTrigger ==
  [][ DaySimulated =>
        \A k \in 1..Len(NewTrades) :
          LET reason == NewTrades[k].reason
          IN  /\ reason \in {"rebalance", "drift", "exit_signal"}
              /\ i \in rebalance_dates => reason = "rebalance"
              /\ (i \notin rebalance_dates /\ has_drift' /\ ~ExitOverride)
                   => reason = "drift"
              /\ (i \notin rebalance_dates /\ ~has_drift' /\ ExitOverride)
                   => reason = "exit_signal" ]_vars

\* the drift check has fired on a day that is no rebalance date and the day
\* has traded
C12_DriftTriggeredTrade ==
  /\ pc = "loop"
  /\ i > 2
  /\ has_drift
  /\ i - 1 \notin rebalance_dates
  /\ TradesOn(trades, i - 1) # <<>>

\* the trades of a sequence that are on a symbol
TradesIn(log, etf) == SelectSeq(log, LAMBDA trade : trade.etf = etf)

\* the transaction cost of a traded value
CostOf(value) == RDiv(RAbs(value), FromInt(CostRateInv))

\* C13: a day on which symbols are held and the target is all cash trades that
\* day, on a rebalance date or not: one sell per held symbol, for all of its
\* shares at the day's price, with cost shares * price * cost rate; the costs
\* are taken off the day's equity and the holdings are empty afterwards.
C13_CashTargetLiquidatesSameDay ==
  [][ (DaySimulated /\ holdings # <<>> /\ allocations'.alloc = CashOnly)
      => /\ Len(NewTrades) = Len(holdings)
         /\ \A k \in 1..Len(holdings) :
              LET etf == holdings[k][1]
                  shares == holdings[k][2]
                  price == FromInt(daily_prices[i][etf])
                  sold == TradesIn(NewTrades, etf)
              IN  /\ Len(sold) = 1
                  /\ sold[1].date = i
                  /\ sold[1].type = "sell"
                  /\ sold[1].shares = RNeg(shares)
                  /\ sold[1].price = price
                  /\ sold[1].cost = CostOf(RMul(shares, price))
         /\ portfolio_value'[i] =
              RSub(MarkToMarket(holdings, i), CostOf(MarkToMarket(holdings, i)))
         /\ holdings' = <<>> ]_vars

\* the exit override has sold the holdings on a day that is no rebalance date
C13_Witness ==
  /\ pc = "loop"
  /\ i > 2
  /\ i - 1 \notin rebalance_dates
  /\ allocations.alloc = CashOnly
  /\ holdings = <<>>
  /\ Len(TradesOn(trades, i - 1)) >= 2
  /\ \A k \in 1..Len(trades) : trades[k].date = i - 1 => trades[k].type = "sell"
  /\ RLT(portfolio_value[i - 1], portfolio_value[i - 2])

\* float equality: a NaN equals nothing
FloatEq(a, b) == ~IsNaN(a) /\ ~IsNaN(b) /\ a = b

\* the day is traded toward a target that is not cash
TradedTowardTarget ==
  /\ DaySimulated
  /\ i \in rebalance_dates \/ has_drift'
  /\ allocations'.alloc # CashOnly

\* the value the day's rebalance starts from
ValueBeforeCosts ==
  IF holdings = <<>> THEN portfolio_value[i - 1] ELSE MarkToMarket(holdings, i)

\* shares of a symbol in a holdings dict, 0 when it is absent
SharesOf(h, etf) == IF Has(h, etf) THEN Get(h, etf) ELSE Zero

\* the costs of the changes of the symbols of a sequence from holdings h to g
CostsOfChanges(symbols, h, g, Changed(_, _)) ==
  LET costs == [k \in 1..Len(symbols) |->
                  LET etf == symbols[k]
                      delta == RSub(SharesOf(g, etf), SharesOf(h, etf))
                  IN  IF Changed(SharesOf(h, etf), SharesOf(g, etf))
                      THEN CostOf(RMul(delta, FromInt(daily_prices[i][etf])))
                      ELSE Zero]
  IN  SeriesSum(costs, Len(costs))

\* what a rebalance toward a target leaves behind, with Changed(current,
\* target) telling which changes of a share count are traded
RebalanceOutcome(Changed(_, _)) ==
  LET target == allocations'.alloc
      union == Keys(holdings) \cup Keys(target)
  IN  /\ Len(holdings') = Len(target)
      /\ Keys(holdings') = Keys(target)
      /\ \A etf \in Keys(target) :
           Get(holdings', etf) = RDiv(RMul(Get(target, etf), ValueBeforeCosts),
                                      FromInt(daily_prices[i][etf]))
      /\ \A k \in 1..Len(NewTrades) : NewTrades[k].etf \in union
      /\ \A etf \in union :
           LET current == SharesOf(holdings, etf)
               delta == RSub(SharesOf(holdings', etf), current)
               price == FromInt(daily_prices[i][etf])
               traded == TradesIn(NewTrades, etf)
           IN  IF Changed(current, SharesOf(holdings', etf))
               THEN /\ Len(traded) = 1
                    /\ traded[1].date = i
                    /\ traded[1].shares = delta
                    /\ traded[1].price = price
                    /\ traded[1].type = "buy" <=> RGT(delta, Zero)
                    /\ traded[1].type \in {"buy", "sell"}
                    /\ traded[1].cost = CostOf(RMul(delta, price))
               ELSE traded = <<>>
      /\ portfolio_value'[i] =
           RSub(ValueBeforeCosts,
                CostsOfChanges(SelectSeq(Columns, LAMBDA etf : etf \in union),
                               holdings, holdings', Changed))

\* C14 as stated: a trade toward a target that is not cash leaves exactly the
\* target's symbols, each with weight * value / price shares, and appends
\* one trade of target - current shares for every symbol of the union whose
\* share count changes (buy iff the difference is positive, cost |difference
\* * price| * cost rate), the costs being taken off the day's equity.
C14_TradePerChangedSymbol ==
  [][ TradedTowardTarget =>
        RebalanceOutcome(LAMBDA current, target : ~FloatEq(current, target)) ]_vars

\* C14 as amended: the same, with one trade for every symbol of the union
\* whose target share count is not within the tolerance of np.isclose of its
\* current share count, and no trade for the other symbols.
C14_TradePerChangeBeyondTolerance ==
  [][ TradedTowardTarget =>
        RebalanceOutcome(LAMBDA current, target : ~IsClose(current, target)) ]_vars

\* a rebalance has sold a symbol that is no longer targeted and has bought
\* more of the symbols that stay, at defined prices
C14_Witness ==
  /\ pc = "loop"
  /\ i > 2
  /\ holdings # <<>>
  /\ \E j, k \in 1..Len(trades) :
       /\ trades[j].date = i - 1
       /\ trades[k].date = i - 1
       /\ trades[j].type = "sell"
       /\ trades[j].etf \notin Keys(holdings)
       /\ trades[k].type = "buy"
       /\ trades[k].etf \in Keys(holdings)
       /\ ~IsNaN(trades[j].cost)
       /\ ~IsNaN(trades[k].cost)
  /\ ~IsNaN(portfolio_value[i - 1])

\* a position has been taken within the tolerance of np.isclose
C14_PositionWithinTolerance ==
  /\ holdings # <<>>
  /\ trades = <<>>

\* the prices of the held symbols are those of the day before
PricesUnchanged(h, day) ==
  \A etf \in Keys(h) : daily_prices[day][etf] = daily_prices[day - 1][etf]

\* C15: transaction costs are never recovered: the equity recorded for a day
\* that ends with symbols held is the market value of the holdings of the end
\* of that day, so that a day without a trade and with unchanged prices
\* records the equity of the day before, also after a rebalance with costs.
C15_CostsNeverRecovered ==
  [][ DaySimulated =>
        /\ holdings' # <<>> => portfolio_value'[i] = MarkToMarket(holdings', i)
        /\ (holdings # <<>> /\ holdings' = holdings /\ NewTrades = <<>>
              /\ PricesUnchanged(holdings, i))
             => portfolio_value'[i] = portfolio_value[i - 1] ]_vars

\* the day after a rebalance with costs has not traded, its prices are those
\* of the rebalance day, and its equity is higher
C15_CostRecovered ==
  /\ pc = "loop"
  /\ i > 3
  /\ holdings # <<>>
  /\ \E k \in 1..Len(trades) : trades[k].date = i - 2 /\ RGT(trades[k].cost, Zero)
  /\ TradesOn(trades, i - 1) = <<>>
  /\ PricesUnchanged(holdings, i - 1)
  /\ RLT(portfolio_value[i - 2], portfolio_value[i - 1])

----------------------------------------------------------------------------
(* Claims about calculate_sharpe, checked under SpecSharpe *)

\* the returns have no variance: every observation equals the first
ConstantSeries(series) == \A k \in 1..Len(series) : series[k] = series[1]

\* C11: calculate_sharpe returns 0 for fewer than 2 observations and for 2 or
\* more observations that are all equal; its result never comes from a
\* division by a zero standard deviation.
C11_SharpeZeroWithoutVariance ==
  pc = "returned" =>
    /\ sharpe.kind = "finite"
    /\ (Len(returns) < 2 \/ ConstantSeries(returns)) => sharpe = SharpeZero

\* calculate_sharpe has returned for 2 or more equal observations
C11_ConstantReturns ==
  pc = "returned" /\ Len(returns) >= 2 /\ ConstantSeries(returns)

====
